---- MODULE Spec2Model ----
(***************************************************************************)
(* Model of the realtime collaboration layer of ACPTributeBoard:           *)
(*   - YjsRealtimeDatabaseProvider (src/unnamed/part_000): document sync,  *)
(*     presence (awareness) sync, teardown and log compaction;             *)
(*   - the Firebase Realtime Database paths it reads and writes            *)
(*     (posts/{id}/updates and awareness/{id}).                            *)
(* Every handler of the provider is one action.  A handler is translated   *)
(* as a function from the provider's fields to its new fields plus the     *)
(* sequence of operations it issued, in program order; the action applies  *)
(* those operations to the remote store in that order.                     *)
(***************************************************************************)
EXTENDS Integers, Sequences, FiniteSets, TLC

\* ------------------------------------------------------------------ bounds
\* Total number of local edits (Yjs transactions) made by all clients.
MaxEdits == 3
\* Number of disconnect()/destroy() calls made on one provider.
MaxDisconnects == 2
\* Number of writes a client may have queued while its connection is down.
MaxOutbox == 2

\* The Yjs client ids of the documents taking part (ydoc.clientID).
Clients == {1, 2}

\* The caller identity passed to the constructor (userId); both documents
\* belong to the same signed-in user, opened in two tabs.
UserId(c) == "alice"

VARIABLES
    ydoc,       \* [Clients -> [store, pend]]: each Y.Doc: integrated and pending structs
    prov,       \* [Clients -> provider fields]
    seen,       \* [Clients -> set of log keys whose child_added has been handled]
    log,        \* posts/{id}/updates : function from key to stored value
    nextKey,    \* the next push key (push keys sort in creation order)
    presence,   \* awareness/{id} : function from client key to entry
    onDisc,     \* client keys with an armed server-side onDisconnect().remove()
    comp,       \* [Clients -> position of compactUpdatesIfLastUser]
    conn,       \* [Clients -> "up" | "off" | "dead"]: connection to the database
    outbox,     \* [Clients -> operations queued by the SDK while offline]
    last,       \* the handler that ran in the last step and what it issued
    hist,       \* history needed to state the claims
    \* ---- useSlidingWindow (src/src/hooks/useSlidingWindow.ts) and the feed
    feed,             \* posts : function from post id to [createdAt, rev]
    loadedPosts,      \* the Map of loaded posts, as its entries in insertion order
    loadingState,     \* 'loading-initial' | 'idle' | 'loading-more' | 'error'
    hasMore,          \* state hasMore
    error,            \* state error: TRUE when an Error is exposed
    activeListeners,  \* keys of the activeListeners Map: open per-post listeners
    visiblePostIds,   \* the visiblePostIds Set
    oldestCreatedAt,  \* the pagination cursor (NoCursor for null)
    isLoadingMoreRef, \* the in-flight flag
    loadMoreTimeout,  \* the pending 300ms timer and the hasMore its closure holds
    fetch,            \* the loadMorePostsOnce call in flight
    mounted,          \* the component using the hook is mounted
    pagePending,      \* the paginated subscription has a snapshot to deliver
    itemPending,      \* posts whose listener has a value to deliver
    unreported,       \* observed elements whose first observer entry is due
    cleanupDue,       \* the 1000ms cleanup timer is pending
    observer,         \* observerRef's IntersectionObserver is connected
    sentinelObserver, \* the sentinel's IntersectionObserver is connected
    \* ---- useYjs (src/unnamed/part_012): the content sync effect
    sync              \* the effect's closure, its timers, and the post's stored content

provVars == <<ydoc, prov, seen, log, nextKey, presence, onDisc, comp, conn, outbox, hist>>

winVars == <<feed, loadedPosts, loadingState, hasMore, error, activeListeners,
             visiblePostIds, oldestCreatedAt, isLoadingMoreRef, loadMoreTimeout, fetch,
             mounted, pagePending, itemPending, unreported, cleanupDue, observer,
             sentinelObserver>>

vars == <<provVars, last, winVars, sync>>

\* ------------------------------------------------------------ Yjs document
\* A struct (item) is <<client, clock>>.  The document integrates a struct
\* only when the structs of the same client with smaller clocks are
\* integrated; the others wait in the pending set (Yjs pendingStructs).
EmptyDoc == [store |-> {}, pend |-> {}]

RECURSIVE Integrate(_, _)
Integrate(S, P) ==
    LET ready == {o \in P : o[2] = 1 \/ <<o[1], o[2] - 1>> \in S}
    IN  IF ready = {} THEN [store |-> S, pend |-> P]
        ELSE Integrate(S \cup ready, P \ ready)

\* Y.applyUpdate(doc, update, origin)
ApplyUpdate(d, u) == Integrate(d.store, (d.pend \cup u) \ d.store)

\* Y.encodeStateAsUpdate(doc): every struct the document holds, the pending
\* ones included.
EncodeStateAsUpdate(d) == d.store \cup d.pend

\* The clock the document gives its next own struct.
NextClock(d, c) == Cardinality({o \in d.store : o[1] = c}) + 1

\* js-base64: the stored value is a string carrying the bytes.
FromUint8Array(u) == [type |-> "string", b64 |-> u]
ToUint8Array(s) == s.b64

\* ------------------------------------------------------------- remote log
PushKey(n) == [kind |-> "push", n |-> n]
CompactedKey == [kind |-> "compacted", n |-> 0]

\* orderByKey(): push keys start with "-" and sort in creation order; the
\* literal key "compacted" sorts after every push key.
KeyLess(a, b) ==
    \/ a.kind = "push" /\ b.kind = "compacted"
    \/ a.kind = "push" /\ b.kind = "push" /\ a.n < b.n

IsSnapshotKey(k) == k.kind = "compacted"
SnapshotKeys(l) == {k \in DOMAIN l : IsSnapshotKey(k)}
DeltaKeys(l) == {k \in DOMAIN l : ~IsSnapshotKey(k)}

EmptyMap == [k \in {} |-> 0]
Put(f, k, v) == [x \in DOMAIN f \cup {k} |-> IF x = k THEN v ELSE f[x]]
Del(f, k) == [x \in DOMAIN f \ {k} |-> f[x]]

\* ------------------------------------------------------- operations issued
Op(t, c, cur, v) == [t |-> t, c |-> c, cur |-> cur, v |-> v]
NoVal == {}

RemoteOps == {"onDisconnectRemove", "onDisconnectCancel", "set", "remove",
              "push", "setUpdates", "updateUpdates"}
IsRemote(op) == op.t \in RemoteOps
PresenceWrites(out) == {i \in DOMAIN out : out[i].t = "set"}

\* The key of a client's presence entry: `${awarenessPath}/${ydoc.clientID}`.
KeyStr(c) == ToString(c)
\* An address derived from the caller identity instead of the client id.
UserAwarenessRef(c) == KeyStr(CHOOSE d \in Clients : UserId(d) = UserId(c))

\* this.selfAwarenessRef = ref(database, `${awarenessPath}/${ydoc.clientID}`)
\* (part_000:35): the address every presence operation of the provider uses.
SelfAwarenessRef(c) == KeyStr(c)

\* parseInt(clientIdStr, 10)
ParseInt(s) == CHOOSE c \in Clients : KeyStr(c) = s

BasicEntry(c) == [userId |-> UserId(c), cursor |-> FALSE]

\* The remote store: what one operation does to it.
ApplyOp(S, op) ==
    CASE op.t = "onDisconnectRemove" ->
            [S EXCEPT !.onDisc = @ \cup {SelfAwarenessRef(op.c)}]
      [] op.t = "onDisconnectCancel" ->
            [S EXCEPT !.onDisc = @ \ {SelfAwarenessRef(op.c)}]
      [] op.t = "set" ->
            [S EXCEPT !.presence = Put(@, SelfAwarenessRef(op.c),
                IF op.cur THEN [userId |-> UserId(op.c), cursor |-> TRUE]
                ELSE BasicEntry(op.c))]
      [] op.t = "remove" ->
            [S EXCEPT !.presence = Del(@, SelfAwarenessRef(op.c))]
      [] op.t = "push" ->
            [S EXCEPT !.log = Put(@, PushKey(S.nextKey), FromUint8Array(op.v)),
                      !.nextKey = @ + 1]
      [] op.t = "setUpdates" ->
            [S EXCEPT !.log = Put(EmptyMap, CompactedKey, FromUint8Array(op.v))]
      [] op.t = "updateUpdates" ->
            [S EXCEPT !.log = Put(@, CompactedKey, FromUint8Array(op.v))]
      [] OTHER -> S

RECURSIVE ApplyOps(_, _)
ApplyOps(S, ops) ==
    IF ops = <<>> THEN S ELSE ApplyOps(ApplyOp(S, Head(ops)), Tail(ops))

Server == [log |-> log, nextKey |-> nextKey, presence |-> presence, onDisc |-> onDisc]

RemoteOf(out) == SelectSeq(out, IsRemote)

\* The server runs a client's onDisconnect().remove() once, when that
\* client's connection goes away, and forgets it.
RunOnDisconnect(S, c) ==
    IF SelfAwarenessRef(c) \in S.onDisc
    THEN [S EXCEPT !.presence = Del(@, SelfAwarenessRef(c)), !.onDisc = @ \ {SelfAwarenessRef(c)}]
    ELSE S

\* ------------------------------------------------------ provider handlers
\* Fields of YjsRealtimeDatabaseProvider (part_000:16-26) and the timers it
\* owns.  `states` is awareness.states: the local state under the own
\* client id, the mirrored remote states under the others.
NoProvider ==
    [phase |-> "none", calls |-> 0,
     unsubscribe |-> FALSE, docOn |-> FALSE,
     awarenessUnsubscribe |-> FALSE, awOn |-> FALSE,
     awarenessUpdateTimeout |-> FALSE, timerDue |-> FALSE,
     initTimer |-> FALSE, isEditorFocused |-> FALSE,
     states |-> EmptyMap]

\* `last`: the handler that ran, its client, what it issued, and whether the
\* step before was the same handler of the same client issuing a presence write.
Ran(name, c, out) ==
    [op |-> name, who |-> c, out |-> out,
     again |-> last.op = name /\ last.who = c /\ PresenceWrites(last.out) # {}]

Emit(r, op) == [r EXCEPT !.out = Append(@, op)]
Start(p) == [p |-> p, out |-> <<>>]

\* onLocalDocUpdate without the origin test.
OnLocalDocUpdateEcho(r, c, u, origin) ==
    Emit(r, Op("push", c, FALSE, u))

\* onLocalDocUpdate (part_000:132-144)
OnLocalDocUpdate(r, c, u, origin) ==
    IF origin = "provider" THEN r
    ELSE Emit(r, Op("push", c, FALSE, u))

\* ydoc.emit('update'): the handler runs only while it is attached.
EmitDocUpdate(r, c, u, origin) ==
    IF r.p.docOn /\ u # {} THEN OnLocalDocUpdate(r, c, u, origin) ELSE r

\* onLocalAwarenessUpdate without the test on the own client id.
OnLocalAwarenessUpdateAny(r, c, changed) ==
    [r EXCEPT !.p.awarenessUpdateTimeout = TRUE, !.p.timerDue = TRUE]

\* onLocalAwarenessUpdate (part_000:227-266), up to arming the timer.
OnLocalAwarenessUpdate(r, c, changed) ==
    IF c \notin changed THEN r
    ELSE [r EXCEPT !.p.awarenessUpdateTimeout = TRUE, !.p.timerDue = TRUE]

\* awareness.setLocalState(state): always emits 'update' naming the own id.
SetLocalState(r, c, st) ==
    LET r1 == [r EXCEPT !.p.states = Put(@, c, st)]
    IN  IF r1.p.awOn THEN OnLocalAwarenessUpdate(r1, c, {c}) ELSE r1

\* awareness.setLocalState(null)
ClearLocalState(r, c) ==
    LET r1 == [r EXCEPT !.p.states = Del(@, c)]
    IN  IF r1.p.awOn THEN OnLocalAwarenessUpdate(r1, c, {c}) ELSE r1

\* createBasicAwarenessEntry (part_000:54-61)
CreateBasicAwarenessEntry(r, c) == Emit(r, Op("set", c, FALSE, NoVal))

\* The timer body writing the local state whatever the focus.
AwarenessTimerBodyUngated(r, c) ==
    IF c \in DOMAIN r.p.states
    THEN Emit(r, Op("set", c, r.p.states[c].cursor, NoVal))
    ELSE Emit(r, Op("remove", c, FALSE, NoVal))

\* The body of the debounce timer (part_000:237-265).
AwarenessTimerBody(r, c) ==
    IF c \in DOMAIN r.p.states
    THEN IF r.p.isEditorFocused
         THEN Emit(r, Op("set", c, r.p.states[c].cursor, NoVal))
         ELSE Emit(r, Op("set", c, FALSE, NoVal))
    ELSE Emit(r, Op("remove", c, FALSE, NoVal))

\* setEditorFocused without the wasFocused test.
SetEditorFocusedNoGuard(r, c, focused) ==
    LET r1 == [r EXCEPT !.p.isEditorFocused = focused]
    IN  IF ~focused
        THEN IF c \in DOMAIN r1.p.states
             THEN Emit(SetLocalState(r1, c, [cursor |-> FALSE]),
                       Op("set", c, FALSE, NoVal))
             ELSE Emit(r1, Op("set", c, FALSE, NoVal))
        ELSE r1

\* setEditorFocused whose blur branch writes the entry but leaves the local
\* state alone.
SetEditorFocusedKeepsCursor(r, c, focused) ==
    LET wasFocused == r.p.isEditorFocused
        r1 == [r EXCEPT !.p.isEditorFocused = focused]
    IN  IF ~focused /\ wasFocused THEN CreateBasicAwarenessEntry(r1, c) ELSE r1

\* setEditorFocused (part_000:67-95)
SetEditorFocusedBody(r, c, focused) ==
    LET wasFocused == r.p.isEditorFocused
        r1 == [r EXCEPT !.p.isEditorFocused = focused]
    IN  IF ~focused /\ wasFocused
        THEN IF c \in DOMAIN r1.p.states
             THEN Emit(SetLocalState(r1, c, [cursor |-> FALSE]),
                       Op("set", c, FALSE, NoVal))
             ELSE CreateBasicAwarenessEntry(r1, c)
        ELSE r1

\* The onValue handler of connectAwarenessSync (part_000:164-218).
\* remoteStates: the entries of the snapshot, the own one skipped, with the
\* metadata fields userId and updatedAt removed.
RemoteStatesNoSkip(c, data) ==
    [id \in {ParseInt(k) : k \in DOMAIN data} |-> [cursor |-> data[KeyStr(id)].cursor]]

RemoteStates(c, data) ==
    [id \in {ParseInt(k) : k \in DOMAIN data} \ {c} |-> [cursor |-> data[KeyStr(id)].cursor]]

OnValueBody(r, c, data) ==
    IF DOMAIN data = {} THEN r
    ELSE
    LET remoteStates == RemoteStates(c, data)
        removed == {id \in DOMAIN r.p.states : id # c /\ id \notin DOMAIN remoteStates}
        kept == [id \in DOMAIN r.p.states \ removed |-> r.p.states[id]]
        added == {id \in DOMAIN remoteStates : id \notin DOMAIN kept}
        updated == {id \in DOMAIN remoteStates : id \in DOMAIN kept}
        merged == [id \in DOMAIN kept \cup DOMAIN remoteStates |->
                     IF id \in DOMAIN remoteStates THEN remoteStates[id] ELSE kept[id]]
        r1 == [r EXCEPT !.p.states = merged]
    IN  IF added # {} \/ updated # {} \/ removed # {}
        THEN Emit(r1, Op("change", c, FALSE,
                         [added |-> added, updated |-> updated, removed |-> removed]))
        ELSE r1

\* The onChildAdded handler of connectDocumentSync (part_000:111-123):
\* what it does to the document.
ChildAddedNoApply(d, val) == d

\* A stored value is a string holding an update ("string"), a value that is
\* not a string ("object"), a string that toUint8Array or the struct reader
\* of Y.applyUpdate rejects ("undecodable"), or a string holding an update
\* cut short after its structs ("truncated"): Y.applyUpdate reads and
\* integrates the structs, then throws while it reads the delete set.
IsStringValue(val) == val.type \in {"string", "undecodable", "truncated"}

ChildAddedDoc(d, val) ==
    IF ~IsStringValue(val) THEN d
    ELSE IF val.type = "undecodable" THEN d
    ELSE ApplyUpdate(d, ToUint8Array(val))

\* disconnect (part_000:268-309), statement by statement.
Local(t, c) == Op(t, c, FALSE, NoVal)

Disc1(r, c) ==
    IF r.p.unsubscribe
    THEN Emit([r EXCEPT !.p.unsubscribe = FALSE], Local("unsubscribeDoc", c))
    ELSE r
Disc2(r, c) == Emit([r EXCEPT !.p.docOn = FALSE], Local("offDocUpdate", c))
Disc3(r, c) ==
    IF r.p.awarenessUpdateTimeout
    THEN Emit([r EXCEPT !.p.awarenessUpdateTimeout = FALSE, !.p.timerDue = FALSE],
              Local("clearTimeout", c))
    ELSE r
Disc4(r, c) == Emit([r EXCEPT !.p.awOn = FALSE], Local("offAwarenessUpdate", c))
Disc5(r, c) == Emit(r, Op("remove", c, FALSE, NoVal))
Disc6(r, c) == Emit(ClearLocalState(r, c), Local("setLocalStateNull", c))
Disc7(r, c) ==
    IF r.p.awarenessUnsubscribe
    THEN Emit([r EXCEPT !.p.awarenessUnsubscribe = FALSE], Local("unsubscribeAwareness", c))
    ELSE r
Disc8(r, c) == Emit(r, Op("onDisconnectCancel", c, FALSE, NoVal))

\* The same with the local state cleared before the registry listener is detached.
DisconnectBodyClearFirst(r, c) ==
    Disc8(Disc7(Disc5(Disc4(Disc6(Disc3(Disc2(Disc1(r, c), c), c), c), c), c), c), c)

DisconnectBody(r, c) ==
    Disc8(Disc7(Disc6(Disc5(Disc4(Disc3(Disc2(Disc1(r, c), c), c), c), c), c), c), c)

\* A constructor that sets no timer for the initial entry.
ConstructBodyNoTimer(c) ==
    Emit(Start([NoProvider EXCEPT
                  !.phase = "live",
                  !.states = Put(EmptyMap, c, [cursor |-> FALSE]),
                  !.unsubscribe = TRUE, !.docOn = TRUE,
                  !.awOn = TRUE, !.awarenessUnsubscribe = TRUE]),
         Op("onDisconnectRemove", c, FALSE, NoVal))

\* constructor (part_000:28-48) with connect, connectDocumentSync and
\* connectAwarenessSync up to their subscriptions.
ConstructBody(c) ==
    Emit(Start([NoProvider EXCEPT
                  !.phase = "live",
                  !.states = Put(EmptyMap, c, [cursor |-> FALSE]),
                  !.unsubscribe = TRUE, !.docOn = TRUE,
                  !.awOn = TRUE, !.awarenessUnsubscribe = TRUE,
                  !.initTimer = TRUE]),
         Op("onDisconnectRemove", c, FALSE, NoVal))

\* ------------------------------------------------------------------ state
\* The pagination cursor before any page arrived: useRef<number | null>(null).
NoCursor == 0

\* The effect of part_012:232-291 copies the editor's HTML to the post's
\* `content` field for the feed.  Contents are numbered; EmptyString is ''.
MaxContent == 3
MaxContentEdits == 3
EmptyString == 0
Contents == 1 .. MaxContent

\* The effect has run for an open editing session (233-239): no timer, not
\* syncing, lastSyncedContent = ''.  The post holds the content the editor
\* shows.  `timers` are the pending 200ms timers in the order they were set;
\* `old` marks those set before the pending 500ms timer was.
SyncEffect(html) ==
    [html |-> html, content |-> html, edits |-> 0,
     syncTimeout |-> [armed |-> FALSE, html |-> html],
     isSyncing |-> FALSE, lastSyncedContent |-> EmptyString,
     write |-> [on |-> FALSE, html |-> html],
     timers |-> <<>>]

\* No editing session is open.
NoSync == sync = SyncEffect(1)

\* The feed is not in use: the component using useSlidingWindow is not mounted.
NoWindow ==
    /\ feed = EmptyMap
    /\ loadedPosts = <<>>
    /\ loadingState = "loading-initial"
    /\ hasMore = TRUE
    /\ error = FALSE
    /\ activeListeners = {}
    /\ visiblePostIds = {}
    /\ oldestCreatedAt = NoCursor
    /\ isLoadingMoreRef = FALSE
    /\ loadMoreTimeout = [due |-> FALSE, hasMore |-> TRUE]
    /\ fetch = [on |-> FALSE, oldest |-> NoCursor, empty |-> FALSE]
    /\ mounted = FALSE
    /\ pagePending = FALSE
    /\ itemPending = {}
    /\ unreported = {}
    /\ cleanupDue = FALSE
    /\ observer = FALSE
    /\ sentinelObserver = FALSE

\* No provider has been constructed and the database paths are empty.
InitProvider ==
    /\ ydoc = [c \in Clients |-> EmptyDoc]
    /\ prov = [c \in Clients |-> NoProvider]
    /\ seen = [c \in Clients |-> {}]
    /\ log = EmptyMap
    /\ nextKey = 1
    /\ presence = EmptyMap
    /\ onDisc = {}
    /\ comp = [c \in Clients |-> "idle"]
    /\ conn = [c \in Clients |-> "up"]
    /\ outbox = [c \in Clients |-> <<>>]
    /\ last = [op |-> "init", who |-> 0, out |-> <<>>, again |-> FALSE]
    /\ hist = [appended |-> {}, cut |-> 0, raced |-> {},
               td |-> [c \in Clients |-> [done |-> FALSE, sole |-> FALSE, fresh |-> {}]]]

Init == InitProvider /\ NoWindow /\ NoSync

SetServer(S) ==
    /\ log' = S.log
    /\ nextKey' = S.nextKey
    /\ presence' = S.presence
    /\ onDisc' = S.onDisc

NotPush(op) == op.t # "push"

Created == UNION {{o \in ydoc[c].store : o[1] = c} : c \in Clients}

\* A rejected push that is sent again until it lands.
AcceptedOnRetry(ops, pushOk) == ops

\* The operations that take effect: a rejected push is only logged
\* (part_000:141-143).
Accepted(ops, pushOk) == IF pushOk THEN ops ELSE SelectSeq(ops, NotPush)

\* A handler of client c has run with result r: its fields are stored and
\* the operations it issued reach the database in program order (the SDK
\* sends them over one connection), or wait in the SDK's queue while the
\* connection is down.  pushOk = FALSE: the push is rejected (part_000:141).
Commit(c, name, r, pushOk) ==
    LET ops == Accepted(RemoteOf(r.out), pushOk)
    IN  /\ prov' = [prov EXCEPT ![c] = r.p]
        /\ last' = Ran(name, c, r.out)
        /\ IF conn[c] = "up"
           THEN SetServer(ApplyOps(Server, ops)) /\ outbox' = outbox
           ELSE /\ Len(outbox[c]) + Len(ops) <= MaxOutbox
                /\ outbox' = [outbox EXCEPT ![c] = @ \o ops]
                /\ UNCHANGED <<log, nextKey, presence, onDisc>>

Alive(c) == conn[c] # "dead"
HistAppended == hist.appended \cup UNION {log'[k].b64 : k \in DeltaKeys(log')}

Step(name, c) == Ran(name, c, <<>>)

\* ---------------------------------------------------------------- actions
\* new YjsRealtimeDatabaseProvider(newYdoc, ...) on a new Y.Doc (part_012:199-209)
Construct(c) ==
    /\ prov[c].phase = "none" /\ Alive(c)
    /\ seen' = [seen EXCEPT ![c] = {}]
    /\ Commit(c, "construct", ConstructBody(c), TRUE)
    /\ UNCHANGED <<winVars, sync, ydoc, comp, conn, hist>>

\* A local transaction on the document: one new struct, then the 'update'
\* event with a foreign origin.
EditBody(c, pushOk, name) ==
    LET o == <<c, NextClock(ydoc[c], c)>>
    IN  /\ prov[c].phase = "live" /\ Alive(c)
        /\ Cardinality(Created) < MaxEdits
        /\ ydoc' = [ydoc EXCEPT ![c] = ApplyUpdate(@, {o})]
        /\ Commit(c, name, EmitDocUpdate(Start(prov[c]), c, {o}, "local"), pushOk)
        /\ hist' = [hist EXCEPT !.appended = HistAppended]
        /\ UNCHANGED <<winVars, sync, seen, comp, conn>>

LocalEdit(c) == EditBody(c, TRUE, "localEdit")

\* The same, the database rejecting the push (logged, not retried).
LocalEditPushFails(c) == conn[c] = "up" /\ EditBody(c, FALSE, "localEditPushFails")

\* onChildAdded over query(updatesRef, orderByKey()): the record with the
\* smallest key among those not yet handled.
Undelivered(c) == DOMAIN log \ seen[c]
NextRecord(c) == CHOOSE k \in Undelivered(c) : \A j \in Undelivered(c) : ~KeyLess(j, k)

OnChildAdded(c) ==
    /\ prov[c].unsubscribe /\ conn[c] = "up"
    /\ Undelivered(c) # {}
    /\ LET k == NextRecord(c)
           d == ChildAddedDoc(ydoc[c], log[k])
       IN  /\ ydoc' = [ydoc EXCEPT ![c] = d]
           /\ seen' = [seen EXCEPT ![c] = @ \cup {k}]
           /\ Commit(c, "onChildAdded",
                     EmitDocUpdate(Start(prov[c]), c, d.store \ ydoc[c].store, "provider"),
                     TRUE)
    /\ hist' = [hist EXCEPT !.appended = HistAppended]
    /\ UNCHANGED <<winVars, sync, comp, conn>>

\* setTimeout(() => this.createBasicAwarenessEntry(), 0) (part_000:45-47)
InitTimerFires(c) ==
    /\ prov[c].initTimer /\ Alive(c)
    /\ Commit(c, "initTimer",
              CreateBasicAwarenessEntry(Start([prov[c] EXCEPT !.initTimer = FALSE]), c), TRUE)
    /\ UNCHANGED <<winVars, sync, ydoc, seen, comp, conn, hist>>

\* The debounce timer of onLocalAwarenessUpdate fires (part_000:237-265).
AwarenessTimerFires(c) ==
    /\ prov[c].timerDue /\ Alive(c)
    /\ Commit(c, "awarenessTimer",
              AwarenessTimerBody(Start([prov[c] EXCEPT !.timerDue = FALSE]), c), TRUE)
    /\ UNCHANGED <<winVars, sync, ydoc, seen, comp, conn, hist>>

\* The editor's caret extension (or the registry's periodic renewal) sets
\* the local awareness state (part_012:156-165).
LocalAwarenessChange(c) ==
    /\ prov[c].phase = "live" /\ Alive(c)
    /\ \E cur \in BOOLEAN :
          Commit(c, "localAwareness", SetLocalState(Start(prov[c]), c, [cursor |-> cur]), TRUE)
    /\ UNCHANGED <<winVars, sync, ydoc, seen, comp, conn, hist>>

\* The editor's focus and blur events (part_012:172-181).
SetEditorFocused(c) ==
    /\ prov[c].phase = "live" /\ Alive(c)
    /\ \E f \in BOOLEAN :
          Commit(c, IF f THEN "setEditorFocusedTrue" ELSE "setEditorFocusedFalse",
                 SetEditorFocusedBody(Start(prov[c]), c, f), TRUE)
    /\ UNCHANGED <<winVars, sync, ydoc, seen, comp, conn, hist>>

\* onValue(allAwarenessRef) delivers the current snapshot.
OnValue(c) ==
    /\ prov[c].awarenessUnsubscribe /\ conn[c] = "up"
    /\ Commit(c, "onValue", OnValueBody(Start(prov[c]), c, presence), TRUE)
    /\ UNCHANGED <<winVars, sync, ydoc, seen, comp, conn, hist>>

\* disconnect() / destroy() (part_000:268-309, 384-386).  The removal's
\* promise is pending until RemoveAck.
SoleViewer(c) ==
    /\ \A d \in Clients \ {c} : prov[d].phase # "live" /\ comp[d] \in {"idle", "done"}
    /\ DOMAIN presence \subseteq {KeyStr(c)}
    /\ SnapshotKeys(log) = {}
    /\ Cardinality(DeltaKeys(log)) >= 2

Disconnect(c) ==
    /\ prov[c].phase \in {"live", "down"} /\ Alive(c)
    /\ prov[c].calls < MaxDisconnects
    /\ comp[c] \in {"idle", "done"}
    /\ Commit(c, "disconnect",
              DisconnectBody(Start([prov[c] EXCEPT !.phase = "down", !.calls = @ + 1]), c),
              TRUE)
    /\ comp' = [comp EXCEPT ![c] = "removing"]
    /\ hist' = IF hist.td[c].done THEN hist
               ELSE [hist EXCEPT !.td[c] =
                       [done |-> TRUE, sole |-> SoleViewer(c),
                        fresh |-> {d \in Clients : prov[d].phase = "none"}]]
    /\ UNCHANGED <<winVars, sync, ydoc, seen, conn>>

\* remove(selfAwarenessRef) resolves: .then(() => this.compactUpdatesIfLastUser())
RemoveAck(c) ==
    /\ comp[c] = "removing" /\ conn[c] = "up" /\ outbox[c] = <<>>
    /\ comp' = [comp EXCEPT ![c] = "presence"]
    /\ last' = Step("removeAck", c)
    /\ UNCHANGED <<winVars, sync, ydoc, prov, seen, log, nextKey, presence, onDisc, conn, outbox, hist>>

\* awarenessSnapshot.exists() && Object.keys(awarenessSnapshot.val()).length > 0
\* (part_000:322)
OthersPresent(p) == DOMAIN p # {}

\* A count check that lets a single record through.
NothingToCompactLoose(l) == DOMAIN l = {}

\* !updatesSnapshot.exists() || updateCount <= 1 (part_000:328-338)
NothingToCompact(l) == DOMAIN l = {} \/ Cardinality(DOMAIN l) <= 1

\* compactUpdatesIfLastUser (part_000:315-352): get(awarenessRef)
CompactReadPresence(c) ==
    /\ comp[c] = "presence" /\ conn[c] = "up"
    /\ comp' = [comp EXCEPT ![c] = IF OthersPresent(presence) THEN "done" ELSE "updates"]
    /\ last' = Step("compactReadPresence", c)
    /\ UNCHANGED <<winVars, sync, ydoc, prov, seen, log, nextKey, presence, onDisc, conn, outbox, hist>>

\* get(this.updatesRef) and the count check
CompactReadUpdates(c) ==
    /\ comp[c] = "updates" /\ conn[c] = "up"
    /\ comp' = [comp EXCEPT ![c] = IF NothingToCompact(log) THEN "done" ELSE "write"]
    /\ last' = Step("compactReadUpdates", c)
    /\ UNCHANGED <<winVars, sync, ydoc, prov, seen, log, nextKey, presence, onDisc, conn, outbox, hist>>

\* set(this.updatesRef, { compacted: base64State })
CompactWriteMerging(r, c) == Emit(r, Op("updateUpdates", c, FALSE, EncodeStateAsUpdate(ydoc[c])))

CompactWriteBody(r, c) == Emit(r, Op("setUpdates", c, FALSE, EncodeStateAsUpdate(ydoc[c])))

\* History: the clients that have written in a race of compactions, that is
\* while another client was past both checks, or after such a write.
RacedAfter(raced, c) ==
    IF \E d \in Clients \ {c} : comp[d] = "write" THEN {c}
    ELSE IF raced # {} /\ c \notin raced THEN raced \cup {c}
    ELSE {}

CompactWrite(c) ==
    /\ comp[c] = "write" /\ conn[c] = "up"
    /\ Commit(c, "compactWrite", CompactWriteBody(Start(prov[c]), c), TRUE)
    /\ comp' = [comp EXCEPT ![c] = "done"]
    /\ hist' = [hist EXCEPT !.cut = nextKey, !.raced = RacedAfter(hist.raced, c)]
    /\ UNCHANGED <<winVars, sync, ydoc, seen, conn>>

\* The tab is closed or the process dies: the connection goes away for good.
Crash(c) ==
    /\ prov[c].phase # "none" /\ Alive(c)
    /\ conn' = [conn EXCEPT ![c] = "dead"]
    /\ outbox' = [outbox EXCEPT ![c] = <<>>]
    /\ SetServer(IF conn[c] = "up" THEN RunOnDisconnect(Server, c) ELSE Server)
    /\ last' = Step("crash", c)
    /\ UNCHANGED <<winVars, sync, ydoc, prov, seen, comp, hist>>

\* The network drops under a running client.
Drop(c) ==
    /\ prov[c].phase # "none" /\ conn[c] = "up"
    /\ conn' = [conn EXCEPT ![c] = "off"]
    /\ SetServer(RunOnDisconnect(Server, c))
    /\ last' = Step("drop", c)
    /\ UNCHANGED <<winVars, sync, ydoc, prov, seen, comp, outbox, hist>>

\* The SDK reconnects and sends what it queued, in order.
Reconnect(c) ==
    /\ conn[c] = "off"
    /\ conn' = [conn EXCEPT ![c] = "up"]
    /\ SetServer(ApplyOps(Server, outbox[c]))
    /\ outbox' = [outbox EXCEPT ![c] = <<>>]
    /\ last' = Step("reconnect", c)
    /\ hist' = [hist EXCEPT !.appended = HistAppended]
    /\ UNCHANGED <<winVars, sync, ydoc, prov, seen, comp>>

\* The hook tears a provider down once, in its effect cleanup (part_012:219-223).
Teardown(c) == prov[c].calls = 0 /\ Disconnect(c)

\* A further disconnect()/destroy() on a provider already torn down.
DisconnectAgain(c) == prov[c].calls > 0 /\ Disconnect(c)

\* Document sync, teardown and compaction.
Next ==
    \E c \in Clients :
        \/ Construct(c)
        \/ LocalEdit(c)
        \/ OnChildAdded(c)
        \/ InitTimerFires(c)
        \/ Teardown(c)
        \/ RemoveAck(c)
        \/ CompactReadPresence(c)
        \/ CompactReadUpdates(c)
        \/ CompactWrite(c)

Spec == Init /\ [][Next]_vars

\* Something other than this provider (another program, a console edit, a
\* failed upload) leaves a malformed record in the log.
MaxMalformed == 1

ForeignStruct == <<0, 1>>

MalformedValues ==
    {[type |-> "object", b64 |-> {}],
     [type |-> "undecodable", b64 |-> {}],
     [type |-> "truncated", b64 |-> {ForeignStruct}]}

Malformed(l) == {k \in DOMAIN l : l[k].type # "string"}

WriteMalformed(val) ==
    /\ Cardinality(Malformed(log)) < MaxMalformed
    /\ nextKey <= MaxEdits + MaxMalformed
    /\ log' = Put(log, PushKey(nextKey), val)
    /\ nextKey' = nextKey + 1
    /\ last' = Step("writeMalformed", 0)
    /\ UNCHANGED <<winVars, sync, ydoc, prov, seen, presence, onDisc, comp, conn, outbox, hist>>

\* Document sync over a log that may hold a malformed record.
NextMalformed ==
    \/ \E c \in Clients :
          \/ Construct(c)
          \/ LocalEdit(c)
          \/ OnChildAdded(c)
          \/ InitTimerFires(c)
    \/ \E val \in MalformedValues : WriteMalformed(val)

SpecMalformed == Init /\ [][NextMalformed]_vars

\* Document sync with appends the database may reject.
NextPush ==
    \E c \in Clients :
        \/ Construct(c)
        \/ LocalEdit(c)
        \/ LocalEditPushFails(c)
        \/ OnChildAdded(c)
        \/ InitTimerFires(c)

SpecPush == Init /\ [][NextPush]_vars

\* The registry emits 'update' for other client ids only (y-protocols:
\* applyAwarenessUpdate or removeAwarenessStates called on the registry).
OthersAwarenessUpdate(c) ==
    /\ prov[c].phase = "live" /\ Alive(c) /\ prov[c].awOn
    /\ \E changed \in SUBSET (Clients \ {c}) :
          /\ changed # {}
          /\ Commit(c, "othersAwareness", OnLocalAwarenessUpdate(Start(prov[c]), c, changed),
                    TRUE)
    /\ UNCHANGED <<winVars, sync, ydoc, seen, comp, conn, hist>>

\* Presence of providers that stay connected: registry, focus and timers.
NextDebounce ==
    \E c \in Clients :
        \/ Construct(c)
        \/ InitTimerFires(c)
        \/ LocalAwarenessChange(c)
        \/ OthersAwarenessUpdate(c)
        \/ AwarenessTimerFires(c)
        \/ SetEditorFocused(c)
        \/ OnValue(c)

SpecDebounce == Init /\ [][NextDebounce]_vars

\* A timer that is due fires: setTimeout(..., 0) runs in the next tick of
\* the event loop.
SpecDebounceFair ==
    SpecDebounce /\ \A c \in Clients : WF_vars(InitTimerFires(c))

\* The same with repeated teardown calls.
NextAgain == Next \/ \E c \in Clients : DisconnectAgain(c)

SpecAgain == Init /\ [][NextAgain]_vars

\* Presence sync: the awareness registry, the editor focus, the timers.
NextPresence ==
    \E c \in Clients :
        \/ Construct(c)
        \/ InitTimerFires(c)
        \/ LocalAwarenessChange(c)
        \/ AwarenessTimerFires(c)
        \/ SetEditorFocused(c)
        \/ OnValue(c)
        \/ Teardown(c)
        \/ RemoveAck(c)
        \/ CompactReadPresence(c)
        \/ CompactReadUpdates(c)

SpecPresence == Init /\ [][NextPresence]_vars

\* Presence sync over a connection that can drop, come back, or die.
NextConn ==
    \E c \in Clients :
        \/ Construct(c)
        \/ InitTimerFires(c)
        \/ LocalAwarenessChange(c)
        \/ AwarenessTimerFires(c)
        \/ Teardown(c)
        \/ RemoveAck(c)
        \/ CompactReadPresence(c)
        \/ CompactReadUpdates(c)
        \/ Drop(c)
        \/ Reconnect(c)
        \/ Crash(c)

SpecConn == Init /\ [][NextConn]_vars

\* ------------------------------------------- useYjs: the content sync effect
AllOld(ts) == [i \in DOMAIN ts |-> [ts[i] EXCEPT !.old = TRUE]]

\* syncContent (241-268), up to the setTimeout: the 500ms timer is set anew
\* with the HTML read now, unless a write is in flight or locked out, or the
\* HTML is the one last written.
SyncContent(s) ==
    IF s.isSyncing THEN s
    ELSE IF s.html = s.lastSyncedContent THEN s
    ELSE [s EXCEPT !.syncTimeout = [armed |-> TRUE, html |-> s.html],
                   !.timers = AllOld(@)]

SyncStep(name) ==
    /\ last' = Step(name, 0)
    /\ UNCHANGED <<provVars, winVars>>

\* The document changes, by the user's typing or by a remote update: the
\* ydoc's 'update' sets a 200ms timer (272-278) and the editor's 'update'
\* calls syncContent (271).
EditorUpdate(v) ==
    /\ sync.edits < MaxContentEdits
    /\ v # sync.html
    /\ sync' = SyncContent([sync EXCEPT !.html = v, !.edits = @ + 1,
                                        !.timers = Append(@, [kind |-> "yjs", old |-> FALSE])])
    /\ SyncStep("editorUpdate")

\* The oldest 200ms timer fires and it is one of handleYjsUpdate (273-277).
YjsTimerFires ==
    /\ sync.timers # <<>> /\ Head(sync.timers).kind = "yjs"
    /\ sync' = SyncContent([sync EXCEPT !.timers = Tail(@)])
    /\ SyncStep("yjsTimer")

\* The oldest 200ms timer fires and it is the one set when a write settled
\* (263-265).
UnlockTimerFires ==
    /\ sync.timers # <<>> /\ Head(sync.timers).kind = "unlock"
    /\ sync' = [sync EXCEPT !.timers = Tail(@), !.isSyncing = FALSE]
    /\ SyncStep("unlockTimer")

\* The 500ms timer fires (251-267), after every 200ms timer set before it:
\* updatePostContent is called with the HTML the closure holds.
SyncTimerFires ==
    /\ sync.syncTimeout.armed
    /\ \A i \in DOMAIN sync.timers : ~sync.timers[i].old
    /\ sync' = IF sync.isSyncing
               THEN [sync EXCEPT !.syncTimeout.armed = FALSE]
               ELSE [sync EXCEPT !.syncTimeout.armed = FALSE,
                                 !.isSyncing = TRUE,
                                 !.write = [on |-> TRUE, html |-> sync.syncTimeout.html]]
    /\ SyncStep("syncTimer")

\* update(postRef, {content, updatedAt}) resolves (part_000:362-371): then()
\* records the content and finally() sets the 200ms lockout timer (256-266).
WriteResolves ==
    /\ sync.write.on
    /\ sync' = [sync EXCEPT !.write.on = FALSE,
                            !.content = sync.write.html,
                            !.lastSyncedContent = sync.write.html,
                            !.timers = Append(@, [kind |-> "unlock", old |-> FALSE])]
    /\ SyncStep("writeResolves")

\* An editing session that stays open, over a database that accepts the writes.
InitSync == InitProvider /\ NoWindow /\ \E h \in Contents : sync = SyncEffect(h)

NextSync ==
    \/ \E v \in Contents : EditorUpdate(v)
    \/ YjsTimerFires
    \/ UnlockTimerFires
    \/ SyncTimerFires
    \/ WriteResolves

SpecSync == InitSync /\ [][NextSync]_vars

\* Timers that are due fire, and the database answers.
SpecSyncFair ==
    /\ SpecSync
    /\ WF_vars(YjsTimerFires) /\ WF_vars(UnlockTimerFires)
    /\ WF_vars(SyncTimerFires) /\ WF_vars(WriteResolves)

\* ======================================================================
\* The feed: useSlidingWindow (src/src/hooks/useSlidingWindow.ts) over the
\* posts collection, read through the static methods of the provider.
\* ======================================================================
\* Number of posts that can exist in the collection.
MaxPosts == 5
\* options.initialBatchSize, options.loadMoreBatchSize, options.disconnectThreshold
InitialBatchSize == 2
LoadMoreBatchSize == 1
DisconnectThreshold == 1
\* Total number of writes (content edits and deletions) made to posts.
MaxWrites == 1

PostIds == 1 .. MaxPosts

\* createdAt: Date.now() at creation, growing with the id; tie # 0: posts
\* tie and tie + 1 were created in the same millisecond.
CreatedAt(i, tie) == IF tie # 0 /\ i = tie + 1 THEN tie ELSE i

\* Object.entries(snapshot.val()).map(...): val() lists the children in key
\* order, whatever the order of the query.
RECURSIVE EntriesOf(_, _)
EntriesOf(f, ids) ==
    IF ids = {} THEN <<>>
    ELSE LET k == CHOOSE k \in ids : \A j \in ids : k <= j
         IN  <<[id |-> k, createdAt |-> f[k].createdAt, rev |-> f[k].rev]>>
                 \o EntriesOf(f, ids \ {k})

\* postsArray.sort((a, b) => b.createdAt - a.createdAt): Array.prototype.sort
\* is stable, equal timestamps keep their order.
InsertPost(t, p) ==
    LET k == Cardinality({i \in 1 .. Len(t) : t[i].createdAt >= p.createdAt})
    IN  SubSeq(t, 1, k) \o <<p>> \o SubSeq(t, k + 1, Len(t))

RECURSIVE SortOldestFirst(_)
SortOldestFirst(s) ==
    IF s = <<>> THEN <<>>
    ELSE LET t == SortOldestFirst(SubSeq(s, 1, Len(s) - 1))
             p == s[Len(s)]
             k == Cardinality({i \in 1 .. Len(t) : t[i].createdAt <= p.createdAt})
         IN  SubSeq(t, 1, k) \o <<p>> \o SubSeq(t, k + 1, Len(t))

RECURSIVE SortNewestFirst(_)
SortNewestFirst(s) ==
    IF s = <<>> THEN <<>>
    ELSE InsertPost(SortNewestFirst(SubSeq(s, 1, Len(s) - 1)), s[Len(s)])

\* orderByChild('createdAt'): ascending by value, then by key.
Before(f, a, b) ==
    \/ f[a].createdAt < f[b].createdAt
    \/ f[a].createdAt = f[b].createdAt /\ a < b

\* endAt(x): the children whose createdAt is at most x.
EndAt(f, x) == {i \in DOMAIN f : f[i].createdAt <= x}

\* limitToLast(n): the last n children in the order of the query.
LimitToLast(f, ids, n) == {i \in ids : Cardinality({j \in ids : Before(f, i, j)}) < n}

\* What subscribeToPostsPaginated hands to its callback (part_000:453-484).
SubscribeToPostsPaginated(f, limit) ==
    SortNewestFirst(EntriesOf(f, LimitToLast(f, DOMAIN f, limit)))

\* A read that includes the posts at the cursor's timestamp.
LoadMorePostsOnceInclusive(f, oldest, limit) ==
    SortNewestFirst(EntriesOf(f, LimitToLast(f, EndAt(f, oldest), limit)))

\* What loadMorePostsOnce resolves to (part_000:528-558).
LoadMorePostsOnce(f, oldest, limit) ==
    SortNewestFirst(EntriesOf(f, LimitToLast(f, EndAt(f, oldest - 1), limit)))

\* The whole array, nothing cut off.
SliceAll(s, n) == s

\* postsArray.slice(0, n)
Slice(s, n) == SubSeq(s, 1, IF Len(s) < n THEN Len(s) ELSE n)

Ids(s) == {s[i].id : i \in 1 .. Len(s)}

\* Map.prototype.set: an existing key keeps its place, a new key goes last.
MapSet(m, p) ==
    IF p.id \in Ids(m)
    THEN [i \in 1 .. Len(m) |-> IF m[i].id = p.id THEN p ELSE m[i]]
    ELSE Append(m, p)

RECURSIVE MapSetAll(_, _)
MapSetAll(m, ps) == IF ps = <<>> THEN m ELSE MapSetAll(MapSet(m, Head(ps)), Tail(ps))

\* The map as it was, the key kept.
MapKeep(m, id) == m

\* Map.prototype.delete
MapDelete(m, id) == SelectSeq(m, LAMBDA p : p.id # id)

\* const posts = useMemo(() => Array.from(loadedPosts.values()).sort(...))
Posts == SortNewestFirst(loadedPosts)

\* currentPosts.findIndex((p) => p.id === id); 0 stands for -1.
FindIndex(ps, id) ==
    IF id \in Ids(ps) THEN CHOOSE i \in 1 .. Len(ps) : ps[i].id = id ELSE 0

Min(S) == CHOOSE x \in S : \A y \in S : x <= y

\* --------------------------------------------------------- the hook's state
\* The component has mounted: the first render and its effects have run.
\* The paginated subscription is open (142-168), the visibility observer
\* exists (247-281) and the cleanup effect has set its first timer (323-351).
Mounted(f) ==
    /\ feed = f
    /\ loadedPosts = <<>>
    /\ loadingState = "loading-initial"
    /\ hasMore = TRUE
    /\ error = FALSE
    /\ activeListeners = {}
    /\ visiblePostIds = {}
    /\ oldestCreatedAt = NoCursor
    /\ isLoadingMoreRef = FALSE
    /\ loadMoreTimeout = [due |-> FALSE, hasMore |-> TRUE]
    /\ fetch = [on |-> FALSE, oldest |-> NoCursor, empty |-> FALSE]
    /\ mounted = TRUE
    /\ pagePending = TRUE
    /\ itemPending = {}
    /\ unreported = {}
    /\ cleanupDue = TRUE
    /\ observer = TRUE
    /\ sentinelObserver = FALSE

NewPost(i, tie) == [createdAt |-> CreatedAt(i, tie), rev |-> 0]

\* A collection that does not change while it is read.
InitWindow ==
    /\ InitProvider
    /\ \E S \in SUBSET PostIds, tie \in 0 .. MaxPosts - 1 :
          Mounted([i \in S |-> NewPost(i, tie)])
    /\ NoSync

\* The post cards on the page (part_007:292-325): none while loading-initial.
Rendered(lp, ls, m) == IF m /\ ls # "loading-initial" THEN Ids(lp) ELSE {}

\* The sentinel is on the page (part_007:323-324, part_004:202-203).
SentinelShown(lp, ls, hm, m) == m /\ ls # "loading-initial" /\ lp # <<>> /\ hm

\* A render has committed: new cards are observed (getPostRef, 354-369) and
\* the observer owes a first entry for each; a card that left the page while
\* counted visible is reported as no longer intersecting.  The sentinel's
\* callback ref (284-320) connects its observer when the sentinel appears and
\* disconnects it when the sentinel goes.
Render ==
    LET now == Rendered(loadedPosts', loadingState', mounted') IN
    /\ unreported' = IF observer'
                     THEN (unreported \cap (now \cup visiblePostIds'))
                             \cup (now \ Rendered(loadedPosts, loadingState, mounted))
                             \cup (visiblePostIds' \ now)
                     ELSE {}
    /\ sentinelObserver' = SentinelShown(loadedPosts', loadingState', hasMore', mounted')

WinStep(name) ==
    /\ last' = Step(name, 0)
    /\ UNCHANGED <<provVars, sync>>

\* The hook holds the value the collection has for the post.
Current(lp, id) ==
    /\ id \in DOMAIN feed
    /\ \E i \in 1 .. Len(lp) : lp[i].id = id /\ lp[i].rev = feed[id].rev

\* A listener opened whether or not the post has one.
NewListenersUnchecked(ids) == ids

\* The posts for which subscribeToPost opens a listener (113-115, 117): those
\* that have none.
NewListeners(ids) == ids \ activeListeners

\* The call of YjsRealtimeDatabaseProvider.subscribeToPost made for one post.
Opened(id) ==
    IF id \in NewListeners({id}) THEN <<[t |-> "subscribeToPost", id |-> id]>> ELSE <<>>

\* subscribeToPost(postId) for each id (111-139): a post already listened to
\* is left alone; a new listener delivers the post's current value first,
\* which changes nothing when the hook holds that value already.
SubscribeAll(ids) ==
    /\ activeListeners' = activeListeners \cup ids
    /\ itemPending' = itemPending
                         \cup {id \in NewListeners(ids) : ~Current(loadedPosts', id)}

Timestamps(s) == {s[i].createdAt : i \in 1 .. Len(s)}

\* The callback of subscribeToPostsPaginated (147-165).
InitialPage ==
    /\ mounted /\ pagePending
    /\ LET postsArray == SubscribeToPostsPaginated(feed, InitialBatchSize + 1)
           kept == Slice(postsArray, InitialBatchSize)
       IN  /\ loadedPosts' = kept
           /\ SubscribeAll(Ids(kept))
           /\ oldestCreatedAt' = IF kept = <<>> THEN NoCursor ELSE Min(Timestamps(kept))
           /\ hasMore' = (Len(postsArray) > InitialBatchSize)
    /\ loadingState' = "idle"
    /\ error' = FALSE
    /\ pagePending' = FALSE
    /\ UNCHANGED <<feed, visiblePostIds, isLoadingMoreRef, loadMoreTimeout, fetch, mounted,
                   cleanupDue, observer>>
    /\ Render
    /\ WinStep("initialPage")

\* The first test of loadMorePosts and of its timer body (172, 182).
LoadMoreReturnsUnguarded(loading, hm, oldest) == ~hm \/ oldest = NoCursor

LoadMoreReturns(loading, hm, oldest) == loading \/ ~hm \/ oldest = NoCursor

\* The sentinel's observer reports it intersecting (299-308) and calls
\* loadMorePosts (171-239), which sets the 300ms timer.
SentinelIntersects ==
    /\ sentinelObserver /\ hasMore
    /\ loadMoreTimeout' =
          IF LoadMoreReturns(isLoadingMoreRef, hasMore, oldestCreatedAt)
          THEN loadMoreTimeout
          ELSE [due |-> TRUE, hasMore |-> hasMore]
    /\ UNCHANGED <<feed, loadedPosts, loadingState, hasMore, error, activeListeners,
                   visiblePostIds, oldestCreatedAt, isLoadingMoreRef, fetch, mounted,
                   pagePending, itemPending, unreported, cleanupDue, observer,
                   sentinelObserver>>
    /\ WinStep("loadMore")

\* The 300ms timer fires (181-196): up to the await of loadMorePostsOnce.
\* The unmount cleanup read loadMoreTimeoutRef.current when the component
\* mounted (383), when it was null, so the timer also fires after unmount;
\* React ignores state set on an unmounted component.
LoadMoreTimerFires ==
    /\ loadMoreTimeout.due
    /\ loadMoreTimeout' = [loadMoreTimeout EXCEPT !.due = FALSE]
    /\ IF LoadMoreReturns(isLoadingMoreRef, loadMoreTimeout.hasMore, oldestCreatedAt)
       THEN UNCHANGED <<isLoadingMoreRef, loadingState, fetch>>
       ELSE /\ isLoadingMoreRef' = TRUE
            /\ loadingState' = IF mounted THEN "loading-more" ELSE loadingState
            /\ fetch' = [fetch EXCEPT !.on = TRUE, !.oldest = oldestCreatedAt]
    /\ UNCHANGED <<feed, loadedPosts, hasMore, error, activeListeners, visiblePostIds,
                   oldestCreatedAt, mounted, pagePending, itemPending, cleanupDue, observer>>
    /\ Render
    /\ WinStep("loadMoreTimer")

\* Whether React calls the updater passed to setLoadedPosts: always while
\* mounted; on an unmounted component it may or may not (the updater is
\* not pure: it calls subscribeToPost, 219).
UpdaterRuns(m) == IF m THEN {TRUE} ELSE BOOLEAN

\* postsArray.length === 0 (198)
EmptyResult(f, oldest) == LoadMorePostsOnce(f, oldest, LoadMoreBatchSize + 1) = <<>>

\* loadMorePostsOnce resolves (198-232).  fetch.empty records that some
\* fetch of the session has returned an empty result.
FetchReturns ==
    /\ fetch.on
    /\ fetch' = [fetch EXCEPT !.on = FALSE,
                              !.empty = @ \/ (mounted /\ EmptyResult(feed, fetch.oldest))]
    /\ isLoadingMoreRef' = FALSE
    /\ LET postsArray == LoadMorePostsOnce(feed, fetch.oldest, LoadMoreBatchSize + 1)
           hasMorePosts == Len(postsArray) > LoadMoreBatchSize
           postsToUse == IF hasMorePosts THEN Slice(postsArray, LoadMoreBatchSize)
                         ELSE postsArray
       IN  IF postsArray = <<>>
           THEN /\ hasMore' = IF mounted THEN FALSE ELSE hasMore
                /\ UNCHANGED <<loadedPosts, activeListeners, itemPending, oldestCreatedAt,
                               error>>
           ELSE /\ \E runs \in UpdaterRuns(mounted) :
                      IF runs
                      THEN /\ loadedPosts' = IF mounted THEN MapSetAll(loadedPosts, postsToUse)
                                             ELSE loadedPosts
                           /\ SubscribeAll(Ids(postsToUse))
                           /\ oldestCreatedAt' =
                                 Min(Timestamps(postsToUse)
                                        \cup (IF oldestCreatedAt = NoCursor THEN {}
                                              ELSE {oldestCreatedAt}))
                      ELSE UNCHANGED <<loadedPosts, activeListeners, itemPending,
                                       oldestCreatedAt>>
                /\ hasMore' = IF mounted THEN hasMorePosts ELSE hasMore
                /\ error' = IF mounted THEN FALSE ELSE error
    /\ loadingState' = IF mounted THEN "idle" ELSE loadingState
    /\ UNCHANGED <<feed, visiblePostIds, loadMoreTimeout, mounted, pagePending, cleanupDue,
                   observer>>
    /\ Render
    /\ WinStep("fetchReturns")

\* The in-flight flag left set by a catch block that does not reset it.
CatchKeepsFlag(loading) == loading

\* isLoadingMoreRef.current after the catch block (236).
CatchBlock(loading) == FALSE

\* loadMorePostsOnce rejects (233-237).
FetchFails ==
    /\ fetch.on
    /\ fetch' = [fetch EXCEPT !.on = FALSE]
    /\ error' = IF mounted THEN TRUE ELSE error
    /\ loadingState' = IF mounted THEN "error" ELSE loadingState
    /\ isLoadingMoreRef' = CatchBlock(isLoadingMoreRef)
    /\ UNCHANGED <<feed, loadedPosts, hasMore, activeListeners, visiblePostIds,
                   oldestCreatedAt, loadMoreTimeout, mounted, pagePending, itemPending,
                   cleanupDue, observer>>
    /\ Render
    /\ WinStep("fetchFails")

\* The visibility observer's callback for one card (253-269): the first
\* entry of a newly observed card, or a change as the page scrolls.  A card
\* that is no longer on the page does not intersect.
ObserverCallback(id) ==
    /\ observer
    /\ id \in unreported \cup Rendered(loadedPosts, loadingState, mounted)
    /\ loadedPosts' = loadedPosts
    /\ \E isIntersecting \in BOOLEAN :
          /\ id \notin Rendered(loadedPosts, loadingState, mounted) => ~isIntersecting
          /\ id \notin unreported => isIntersecting # (id \in visiblePostIds)
          /\ IF isIntersecting
             THEN /\ visiblePostIds' = visiblePostIds \cup {id} /\ SubscribeAll({id})
                  /\ last' = Ran("observer", 0, Opened(id))
             ELSE /\ visiblePostIds' = visiblePostIds \ {id}
                  /\ UNCHANGED <<activeListeners, itemPending>>
                  /\ last' = Ran("observer", 0, <<>>)
    /\ unreported' = unreported \ {id}
    /\ cleanupDue' = TRUE
    /\ UNCHANGED <<feed, loadingState, hasMore, error, oldestCreatedAt,
                   isLoadingMoreRef, loadMoreTimeout, fetch, mounted, pagePending, observer,
                   sentinelObserver>>
    /\ UNCHANGED <<provVars, sync>>

\* disconnectThresholdRef.current * loadMoreBatchSizeRef.current (327)
Threshold == DisconnectThreshold * LoadMoreBatchSize

Abs(x) == IF x < 0 THEN 0 - x ELSE x

\* The cleanup's decision for one listener (330-346).
ShouldDisconnect(ps, visibleIds, postId) ==
    LET postIndex == FindIndex(ps, postId)
    IN  /\ postIndex # 0
        /\ ~\E v \in visibleIds :
               /\ FindIndex(ps, v) # 0
               /\ Abs(postIndex - FindIndex(ps, v)) < Threshold
        /\ postId \notin visibleIds

\* The 1000ms cleanup timer fires (325-348).
CleanupFires ==
    /\ mounted /\ cleanupDue
    /\ cleanupDue' = FALSE
    /\ LET gone == {id \in activeListeners : ShouldDisconnect(Posts, visiblePostIds, id)}
       IN  /\ activeListeners' = activeListeners \ gone
           /\ itemPending' = itemPending \ gone
    /\ UNCHANGED <<feed, loadedPosts, loadingState, hasMore, error, visiblePostIds,
                   oldestCreatedAt, isLoadingMoreRef, loadMoreTimeout, fetch, mounted,
                   pagePending, unreported, observer, sentinelObserver>>
    /\ WinStep("cleanup")

\* The callback of one post's listener (117-135).
ItemCallback(id) ==
    /\ id \in activeListeners \cap itemPending
    /\ itemPending' = itemPending \ {id}
    /\ IF id \in DOMAIN feed
       THEN /\ loadedPosts' = IF mounted
                              THEN MapSet(loadedPosts, [id |-> id,
                                                        createdAt |-> feed[id].createdAt,
                                                        rev |-> feed[id].rev])
                              ELSE loadedPosts
            /\ activeListeners' = activeListeners
       ELSE /\ loadedPosts' = IF mounted THEN MapDelete(loadedPosts, id) ELSE loadedPosts
            /\ activeListeners' = activeListeners \ {id}
    /\ UNCHANGED <<feed, loadingState, hasMore, error, visiblePostIds, oldestCreatedAt,
                   isLoadingMoreRef, loadMoreTimeout, fetch, mounted, pagePending, cleanupDue,
                   observer>>
    /\ Render
    /\ WinStep("itemCallback")

\* The component unmounts: the cleanups of the effects run (167, 276-280,
\* 350, 385-397) and the sentinel's callback ref is called with null (291-294).
Unmount ==
    /\ mounted
    /\ mounted' = FALSE
    /\ pagePending' = FALSE
    /\ observer' = FALSE
    /\ cleanupDue' = FALSE
    /\ activeListeners' = {}
    /\ itemPending' = {}
    /\ UNCHANGED <<feed, loadedPosts, loadingState, hasMore, error, visiblePostIds,
                   oldestCreatedAt, isLoadingMoreRef, loadMoreTimeout, fetch>>
    /\ Render
    /\ WinStep("unmount")

\* The feed over a collection that does not change.  The listeners of the
\* posts then deliver only the values the pages already hold.
NextWindow ==
    \/ InitialPage
    \/ SentinelIntersects
    \/ LoadMoreTimerFires
    \/ FetchReturns
    \/ FetchFails
    \/ \E id \in PostIds : ObserverCallback(id)
    \/ CleanupFires
    \/ Unmount

SpecWindow == InitWindow /\ [][NextWindow]_vars

\* ------------------------------------------------- a collection that changes
RECURSIVE SumRev(_, _)
SumRev(f, ids) ==
    IF ids = {} THEN 0
    ELSE LET k == CHOOSE k \in ids : TRUE IN f[k].rev + SumRev(f, ids \ {k})

\* Writes made to the posts so far: edits and deletions.
Writes == SumRev(feed, DOMAIN feed) + (MaxPosts - Cardinality(DOMAIN feed))

\* The children the paginated subscription's query covers (part_000:459).
PageOf(f) == LimitToLast(f, DOMAIN f, InitialBatchSize + 1)

\* A write under posts/{id}: updatePostContent (part_000:362-371),
\* updatePostExhibit (395-401), or a document update pushed under
\* posts/{id}/updates (141).  Every listener whose path or query covers the
\* post has a new snapshot to deliver.
EditPost(id) ==
    /\ id \in DOMAIN feed /\ Writes < MaxWrites
    /\ feed' = [feed EXCEPT ![id].rev = @ + 1]
    /\ pagePending' = (pagePending \/ (mounted /\ id \in PageOf(feed)))
    /\ itemPending' = itemPending \cup ({id} \cap activeListeners)
    /\ UNCHANGED <<loadedPosts, loadingState, hasMore, error, activeListeners,
                   visiblePostIds, oldestCreatedAt, isLoadingMoreRef, loadMoreTimeout, fetch,
                   mounted, unreported, cleanupDue, observer, sentinelObserver>>
    /\ WinStep("editPost")

\* deletePost (part_000:376-382): remove(posts/{id}).
DeletePost(id) ==
    /\ id \in DOMAIN feed /\ Writes < MaxWrites
    /\ feed' = [i \in DOMAIN feed \ {id} |-> feed[i]]
    /\ pagePending' = (pagePending \/ (mounted /\ id \in PageOf(feed)))
    /\ itemPending' = itemPending \cup ({id} \cap activeListeners)
    /\ UNCHANGED <<loadedPosts, loadingState, hasMore, error, activeListeners,
                   visiblePostIds, oldestCreatedAt, isLoadingMoreRef, loadMoreTimeout, fetch,
                   mounted, unreported, cleanupDue, observer, sentinelObserver>>
    /\ WinStep("deletePost")

\* The feed is mounted over a collection of MaxPosts posts that are then
\* edited and deleted.
InitFeed ==
    /\ InitProvider
    /\ \E tie \in {0, 1, MaxPosts - 1} : Mounted([i \in PostIds |-> NewPost(i, tie)])
    /\ NoSync

\* Pages, live values and writes; nothing scrolls.
NextFeed ==
    \/ InitialPage
    \/ SentinelIntersects
    \/ LoadMoreTimerFires
    \/ FetchReturns
    \/ \E id \in PostIds : ItemCallback(id)
    \/ \E id \in PostIds : EditPost(id)
    \/ \E id \in PostIds : DeletePost(id)

SpecFeed == InitFeed /\ [][NextFeed]_vars

\* The observer's first entry for a card it was given (253-269).
FirstEntry(id) == id \in unreported /\ ObserverCallback(id)

\* Pages, visibility and the cleanup over a collection whose posts are edited.
InitListeners ==
    /\ InitProvider
    /\ Mounted([i \in PostIds |-> NewPost(i, 0)])
    /\ NoSync

NextListeners ==
    \/ InitialPage
    \/ SentinelIntersects
    \/ LoadMoreTimerFires
    \/ FetchReturns
    \/ \E id \in PostIds : FirstEntry(id)
    \/ CleanupFires
    \/ \E id \in PostIds : ItemCallback(id)
    \/ \E id \in PostIds : EditPost(id)

SpecListeners == InitListeners /\ [][NextListeners]_vars

\* ----------------------------------------------------------------- claims
Attached(c) == prov[c].unsubscribe
Pushes(out) == {i \in DOMAIN out : out[i].t = "push"}
Foreign(c) == {o \in ydoc[c].store : o[1] # c}

\* C1  No feedback loop: a record applied by the onChildAdded handler (origin:
\* the provider) never makes the provider push; the pushes ever issued are
\* exactly the local edits, one each.
NoFeedbackLoop ==
    /\ [](nextKey - 1 = Cardinality(Created))
    /\ [][last'.op = "onChildAdded" =>
            /\ Pushes(last'.out) = {}
            /\ log' = log /\ nextKey' = nextKey]_vars

\* A provider has just applied a record holding another client's struct.
NoFeedbackLoopWitness ==
    /\ last.op = "onChildAdded"
    /\ Foreign(last.who) # {}
    /\ last.out = <<>>

\* C2  Convergence: once every appended delta has been handled by every
\* attached client (and every local edit was appended), the attached
\* clients hold the same document state.
AllDelivered ==
    /\ Created \subseteq hist.appended
    /\ \A c \in Clients : Attached(c) =>
          \A n \in 1..(nextKey - 1) : PushKey(n) \in seen[c]

Convergence ==
    AllDelivered =>
        \A c1, c2 \in Clients :
            Attached(c1) /\ Attached(c2) => ydoc[c1].store = ydoc[c2].store

\* Two attached clients that both edited and have handled every delta.
ConvergenceWitness ==
    /\ AllDelivered
    /\ \A c \in Clients : Attached(c) /\ Foreign(c) # {} /\ ydoc[c].store \ Foreign(c) # {}

\* C3  Compaction end-to-end: a provider torn down as the sole viewer with at
\* least 2 deltas stored and nobody else active leaves, when its teardown has
\* settled, a log of exactly one snapshot record; a client that attaches
\* afterwards and replays that record holds the state the compacting client had.
Decoded(val) == ApplyUpdate(EmptyDoc, ToUint8Array(val)).store

CompactionEndToEnd ==
    /\ [][\A c \in Clients :
            (/\ comp[c] # "done" /\ comp'[c] = "done"
             /\ hist.td[c].sole
             /\ \A d \in hist.td[c].fresh : prov[d].phase = "none")
            => /\ DOMAIN log' = {CompactedKey}
               /\ Decoded(log'[CompactedKey]) = ydoc[c].store]_vars
    /\ [](\A c, d \in Clients :
            (/\ comp[c] = "done" /\ hist.td[c].sole /\ d \in hist.td[c].fresh
             /\ Attached(d) /\ DOMAIN log = {CompactedKey} /\ seen[d] = {CompactedKey}
             /\ ydoc[d].store \ Foreign(d) = {})
            => ydoc[d].store = ydoc[c].store)

\* C4  (as stated) The log holds either at most one snapshot record or delta
\* records, never a snapshot record together with delta records.
SnapshotXorDeltas ==
    \/ SnapshotKeys(log) = {}
    \/ Cardinality(SnapshotKeys(log)) = 1 /\ DeltaKeys(log) = {}

\* C4  (amended) The log holds at most one snapshot record; a compaction
\* leaves exactly that record and no delta; the delta records stored beside
\* a snapshot record were all appended after the compaction that wrote it.
SnapshotThenLaterDeltas ==
    /\ [](/\ Cardinality(SnapshotKeys(log)) <= 1
          /\ SnapshotKeys(log) # {} => \A k \in DeltaKeys(log) : k.n >= hist.cut)
    /\ [][last'.op = "compactWrite" => DOMAIN log' = {CompactedKey}]_vars

\* A delta appended after a compaction lies in the log beside the snapshot.
SnapshotWithDeltaWitness ==
    /\ SnapshotKeys(log) # {}
    /\ DeltaKeys(log) # {}

\* C5  Presence self-exclusion: whatever the snapshot holds, the own entry
\* included, the onValue handler neither sets nor deletes the registry entry
\* of the own client id nor lists that id as added, updated or removed.
SameOwnState(c, p, q) ==
    /\ (c \in DOMAIN p.states) = (c \in DOMAIN q.states)
    /\ c \in DOMAIN p.states => p.states[c] = q.states[c]

PresenceSelfExclusion ==
    [][last'.op = "onValue" =>
        LET c == last'.who
        IN  /\ SameOwnState(c, prov[c], prov'[c])
            /\ \A i \in DOMAIN last'.out :
                  last'.out[i].t = "change" =>
                    c \notin (last'.out[i].v.added \cup last'.out[i].v.updated
                                \cup last'.out[i].v.removed)]_vars

\* The handler has just folded a snapshot that holds the own entry, with a cursor.
PresenceSelfExclusionWitness ==
    /\ last.op = "onValue"
    /\ last.out # <<>>
    /\ KeyStr(last.who) \in DOMAIN presence
    /\ presence[KeyStr(last.who)].cursor

Settled(c) ==
    /\ prov[c].phase = "down"
    /\ ~prov[c].initTimer /\ ~prov[c].timerDue
    /\ comp[c] = "done"

TimersDeadAfterTeardown ==
    /\ [][(last'.op \in {"initTimer", "awarenessTimer"} /\ prov[last'.who].phase = "down")
            => PresenceWrites(last'.out) = {}]_vars
    /\ [](\A c \in Clients : Settled(c) => KeyStr(c) \notin DOMAIN presence)

\* C8  Teardown order: disconnect() performs its steps in the order of the
\* teardown contract (a step whose resource is not held is skipped), leaves
\* no debounced write pending, and the compaction check starts only from
\* the completion of the own-entry removal.
TeardownSteps ==
    <<"unsubscribeDoc", "offDocUpdate", "clearTimeout", "offAwarenessUpdate",
      "remove", "setLocalStateNull", "unsubscribeAwareness", "onDisconnectCancel">>

Names(out) == [i \in 1..Len(out) |-> out[i].t]

ExpectedSteps(p) ==
    LET Keep(t) ==
            /\ t = "unsubscribeDoc" => p.unsubscribe
            /\ t = "clearTimeout" => p.awarenessUpdateTimeout
            /\ t = "unsubscribeAwareness" => p.awarenessUnsubscribe
    IN  SelectSeq(TeardownSteps, Keep)

TeardownOrder ==
    /\ [][last'.op = "disconnect" =>
            /\ Names(last'.out) = ExpectedSteps(prov[last'.who])
            /\ ~prov'[last'.who].timerDue]_vars
    /\ [][\A c \in Clients :
            (comp[c] # "presence" /\ comp'[c] = "presence") =>
                /\ last'.op = "removeAck" /\ last'.who = c
                /\ comp[c] = "removing"
                /\ \A i \in DOMAIN outbox[c] : outbox[c][i].t # "remove"]_vars

\* A teardown that ran all eight steps, a pending debounced write included.
TeardownOrderWitness ==
    /\ last.op = "disconnect"
    /\ Names(last.out) = TeardownSteps
    /\ comp[last.who] = "removing"

\* C9  Teardown is idempotent: a repeated disconnect() call, and the
\* compaction check it starts, change neither the provider's fields nor the
\* presence store nor the log.
TeardownOps ==
    {"removeAck", "compactReadPresence", "compactReadUpdates", "compactWrite"}

RepeatedTeardownNoOp ==
    [][LET c == last'.who
       IN  (\/ last'.op = "disconnect" /\ prov[c].calls >= 1
            \/ last'.op \in TeardownOps /\ prov[c].calls >= 2)
           => /\ log' = log
              /\ presence' = presence
              /\ onDisc' = onDisc
              /\ prov'[c] = [prov[c] EXCEPT !.calls = prov'[c].calls]]_vars

\* C10  Disconnect safety: a client whose connection is gone for good, its
\* provider never torn down, has no entry in the presence store.
CrashedClientHasNoEntry ==
    \A c \in Clients :
        (conn[c] = "dead" /\ prov[c].phase = "live") => KeyStr(c) \notin DOMAIN presence

\* ----------------------------------------------------------------- C11
\* C11: pagination exhaustion.  Over a collection that does not change,
\* once the initial page has arrived and load-more has run until hasMore
\* is false, the working set holds every post of the collection, each
\* exactly once.
PaginationExhaustion ==
    (mounted /\ loadingState # "loading-initial" /\ ~hasMore)
        => /\ Ids(loadedPosts) = DOMAIN feed
           /\ Len(loadedPosts) = Cardinality(Ids(loadedPosts))

\* ----------------------------------------------------------------- C12
\* The visible posts form one window of the list: consecutive positions.
VisibleWindow ==
    /\ visiblePostIds \subseteq Ids(Posts)
    /\ \A i, j, k \in 1 .. Len(Posts) :
          (i < j /\ j < k /\ Posts[i].id \in visiblePostIds /\ Posts[k].id \in visiblePostIds)
              => Posts[j].id \in visiblePostIds

\* C12: listener bound.  When the visible posts form one window, after a
\* run of the debounced cleanup the number of open per-post listeners is at
\* most visibleCount + 2 * disconnectThreshold * pageSize, whatever the
\* size of the feed.
ListenerBound ==
    [][(last'.op = "cleanup" /\ VisibleWindow)
          => Cardinality(activeListeners')
                <= Cardinality(visiblePostIds) + 2 * DisconnectThreshold * LoadMoreBatchSize]_vars

\* ----------------------------------------------------------------- C13
\* The listener of a post is open while the post is neither visible nor
\* within the buffer distance (disconnectThreshold * pageSize positions of
\* the list) of a visible post.
Far(id) ==
    /\ id \in activeListeners
    /\ id \notin visiblePostIds
    /\ ~\E v \in visiblePostIds :
           /\ FindIndex(Posts, id) # 0
           /\ FindIndex(Posts, v) # 0
           /\ Abs(FindIndex(Posts, id) - FindIndex(Posts, v)) < Threshold

\* Nothing is left to run: no timer is due, no snapshot or observer entry
\* waits to be delivered and no fetch is in flight.
Quiescent ==
    /\ ~pagePending /\ itemPending = {} /\ unreported = {}
    /\ ~cleanupDue /\ ~loadMoreTimeout.due /\ ~fetch.on

\* C13: every open listener whose post is not visible and lies at or
\* beyond the buffer distance from every visible post is eventually
\* closed, whoever opened it (the initial load, load-more, or visibility):
\* once nothing is left to run, no such listener is open, since from then
\* on nothing would close it.
FarListenersClosed == Quiescent => \A id \in PostIds : ~Far(id)

\* ----------------------------------------------------------------- C14
\* The list the hook returns for a Map of loaded posts.
PostsOf(lp) == SortNewestFirst(lp)

StrictlyDescending(ps) ==
    \A i, j \in 1 .. Len(ps) : i < j => ps[i].createdAt > ps[j].createdAt

Descending(ps) ==
    \A i, j \in 1 .. Len(ps) : i < j => ps[i].createdAt >= ps[j].createdAt

EachIdOnce(ps) == Len(ps) = Cardinality(Ids(ps))

\* Two posts with the same timestamp that are in both lists are in the
\* same order in both.
TiesKeepOrder(ps, qs) ==
    \A a, b \in Ids(ps) \cap Ids(qs) :
        (a # b /\ ps[FindIndex(ps, a)].createdAt = ps[FindIndex(ps, b)].createdAt)
            => ((FindIndex(ps, a) < FindIndex(ps, b)) <=> (FindIndex(qs, a) < FindIndex(qs, b)))

\* C14 as stated: in every state the posts list is sorted strictly
\* descending by creation timestamp and holds each id at most once, and
\* two posts with equal timestamps keep their relative order from one
\* state to the next.
OrderingStrict ==
    [][/\ StrictlyDescending(PostsOf(loadedPosts'))
       /\ EachIdOnce(PostsOf(loadedPosts'))
       /\ TiesKeepOrder(PostsOf(loadedPosts), PostsOf(loadedPosts'))]_vars

\* C14 amended: the posts list is sorted descending by creation timestamp
\* (strictly between posts of different timestamps; posts of the same
\* timestamp are adjacent), holds each id at most once, and two posts with
\* equal timestamps keep their relative order from one state to the next.
OrderingStable ==
    [][/\ Descending(PostsOf(loadedPosts'))
       /\ EachIdOnce(PostsOf(loadedPosts'))
       /\ TiesKeepOrder(PostsOf(loadedPosts), PostsOf(loadedPosts'))]_vars

\* Two posts with the same timestamp are in the list, and a value of one of
\* them has just been delivered or the page has been delivered again.
OrderingWitness ==
    /\ last.op \in {"itemCallback", "initialPage"}
    /\ \E i, j \in 1 .. Len(Posts) :
          i < j /\ Posts[i].createdAt = Posts[j].createdAt
    /\ \E i \in 1 .. Len(loadedPosts) : loadedPosts[i].rev > 0

\* ----------------------------------------------------------------- C15
\* C15: when a load-more fetch fails, the error is exposed to the caller
\* (of a mounted hook), the working set, the cursor, hasMore and the open
\* listeners are unchanged, the in-flight flag is cleared, and the next
\* trigger is not suppressed and fetches from the cursor of the failed fetch.
FailedFetchRetryable ==
    [][last'.op = "fetchFails" =>
          /\ loadedPosts' = loadedPosts
          /\ oldestCreatedAt' = oldestCreatedAt
          /\ hasMore' = hasMore
          /\ activeListeners' = activeListeners
          /\ ~isLoadingMoreRef'
          /\ mounted =>
                /\ error' /\ loadingState' = "error"
                /\ ~LoadMoreReturns(isLoadingMoreRef', hasMore', oldestCreatedAt')
                /\ oldestCreatedAt' = fetch.oldest]_vars

\* A fetch has failed and, after a later trigger, the timer has issued the
\* fetch again from the same cursor.
FailedFetchRetried ==
    /\ mounted /\ error
    /\ last.op = "loadMoreTimer"
    /\ fetch.on /\ fetch.oldest = oldestCreatedAt

\* ----------------------------------------------------------------- C18
\* C18: load-more is mutually exclusive.  While a fetch is in flight no
\* timer that would start another one is scheduled (a fetch starts only
\* when the timer fires), and a trigger that arrives while a fetch is in
\* flight changes neither the timer nor the fetch.
LoadMoreExclusive ==
    [][/\ ~(fetch'.on /\ loadMoreTimeout'.due)
       /\ fetch'.on => isLoadingMoreRef'
       /\ (fetch.on /\ last'.op = "loadMore") =>
             (loadMoreTimeout' = loadMoreTimeout /\ fetch' = fetch)]_vars

\* A trigger has arrived while a fetch was in flight.
TriggerWhileInFlight == fetch.on /\ last.op = "loadMore" /\ mounted

\* ----------------------------------------------------------------- C17
\* C17: after the hook is unmounted no per-post listener and no observer is
\* open, whatever timer or fetch was pending at the unmount.
DisposedClosesAll ==
    ~mounted => (activeListeners = {} /\ ~observer /\ ~sentinelObserver)

\* ----------------------------------------------------------------- C19
\* C19: once a load-more fetch has returned an empty result and hasMore is
\* false, hasMore does not become true again.
HasMoreStaysFalse ==
    [][(fetch.empty /\ ~hasMore) => ~hasMore']_vars

\* ----------------------------------------------------------------- C20
\* C20: a teardown goes on to its log read only if its presence read found
\* no entry for the document, goes on to the replace-all write only if its
\* log read found at least 2 records, issues the write only then, and in
\* every other step leaves the log unchanged.
CompactionEligibility ==
    [][\A c \in Clients :
          /\ (comp'[c] = "updates" /\ comp[c] # "updates") =>
                (last'.op = "compactReadPresence" /\ DOMAIN presence = {})
          /\ (comp'[c] = "write" /\ comp[c] # "write") =>
                (last'.op = "compactReadUpdates" /\ Cardinality(DOMAIN log) >= 2)
          /\ (last'.who = c /\ last'.op = "compactWrite") =>
                (comp[c] = "write" /\ DOMAIN log' = {CompactedKey})
          /\ (last'.who = c /\ last'.op \in {"disconnect", "removeAck", "compactReadPresence",
                                         "compactReadUpdates"}) =>
                log' = log]_vars

\* A teardown has issued the replace-all write.
CompactionWritten ==
    /\ last.op = "compactWrite"
    /\ DOMAIN log = {CompactedKey}
    /\ DOMAIN presence = {}

\* ----------------------------------------------------------------- C16
\* Every well-formed record the client has been handed is in its document.
HandledRecordsApplied(c, sn, l, d) ==
    \A k \in sn \cap DOMAIN l :
        l[k].type = "string" => l[k].b64 \subseteq EncodeStateAsUpdate(d)

\* C16: the handler of a malformed record leaves the local document as it
\* was, and every well-formed record handled, before or after it, is applied.
MalformedSkipped ==
    [][\A c \in Clients :
          (last'.op = "onChildAdded" /\ last'.who = c) =>
              /\ log[NextRecord(c)].type # "string" => ydoc'[c] = ydoc[c]
              /\ HandledRecordsApplied(c, seen'[c], log', ydoc'[c])]_vars

\* ----------------------------------------------------------------- C21
\* What the presence store and the armed disconnect triggers hold at the
\* addresses other than the one of client c.
OthersPresence(c, p) == [k \in DOMAIN p \ {KeyStr(c)} |-> p[k]]

\* C21: a step of a provider changes the presence store and the armed
\* disconnect triggers only at the address of its own client id; the two
\* providers of the same user never share an entry.
SingleWriterPresence ==
    [][\A c \in Clients :
          last'.who = c =>
              /\ OthersPresence(c, presence') = OthersPresence(c, presence)
              /\ onDisc' \ {KeyStr(c)} = onDisc \ {KeyStr(c)}
              /\ \A i \in DOMAIN last'.out : IsRemote(last'.out[i]) => last'.out[i].c = c]_vars

\* Both providers of the user hold an entry and one of them has just
\* written or removed its own.
TwoEntriesOneUser ==
    /\ \A c \in Clients : KeyStr(c) \in DOMAIN presence /\ presence[KeyStr(c)].userId = "alice"
    /\ PresenceWrites(last.out) # {}

\* ----------------------------------------------------------------- C22
\* The position of a record in the order of writing: delta n was written
\* as the n-th push; the snapshot was written by the last compaction, after
\* the pushes before hist.cut and before the others.
WriteRank(k) == IF IsSnapshotKey(k) THEN 2 * hist.cut ELSE 2 * k.n + 1

\* C22: every record a reader is handed was written after every record of
\* the log it has been handed before.
AppliedInWriteOrder ==
    [][\A c \in Clients :
          (last'.op = "onChildAdded" /\ last'.who = c) =>
              \A j \in seen[c] \cap DOMAIN log : WriteRank(j) < WriteRank(NextRecord(c))]_vars

\* ----------------------------------------------------------------- C23
EditOps == {"localEdit", "localEditPushFails"}

\* C23: a local edit issues exactly one push, of the delta of that edit, and
\* the document holds the edit; no other step issues a push; when the push
\* is rejected the log is left as it was.
OneAppendAttempt ==
    [][LET c == last'.who
           out == last'.out
       IN  /\ last'.op \in EditOps =>
                /\ Cardinality(Pushes(out)) = 1
                /\ \A i \in Pushes(out) :
                      /\ out[i].v = ydoc'[c].store \ ydoc[c].store
                      /\ out[i].v # {}
           /\ last'.op \notin EditOps => Pushes(out) = {}
           /\ last'.op = "localEditPushFails" =>
                (log' = log /\ nextKey' = nextKey)]_vars

\* A push has been rejected: the document holds a struct that no record of
\* the log carries.
RejectedPushKept ==
    /\ last.op = "localEditPushFails"
    /\ \E o \in ydoc[last.who].store :
          /\ o[1] = last.who
          /\ \A k \in DOMAIN log : o \notin log[k].b64

\* ----------------------------------------------------------------- C24
\* C24: when two teardowns have both passed the presence check and the
\* count check before either wrote, the log holds exactly one snapshot
\* record, and nothing else, after each of the two replace-all writes.
ConcurrentCompactions ==
    [][(last'.op = "compactWrite" /\ hist'.raced # {}) =>
          (Cardinality(SnapshotKeys(log')) = 1 /\ DOMAIN log' = SnapshotKeys(log'))]_vars

\* Both writes of a race have completed.
BothCompactionsWritten ==
    /\ last.op = "compactWrite"
    /\ hist.raced = Clients
    /\ \A c \in Clients : comp[c] = "done"

\* ----------------------------------------------------------------- C25
\* The client ids of a presence snapshot, the own one left out.
NonSelfIds(c, data) == {ParseInt(k) : k \in DOMAIN data} \ {c}

\* C25: after the onValue handler has processed a snapshot, the non-self ids
\* of the registry are those of the snapshot; the new ones were reported
\* added, the ones already known updated, the ones that left removed.
RegistryMirrorsSnapshot ==
    [][last'.op = "onValue" =>
          LET c == last'.who
              before == DOMAIN prov[c].states \ {c}
              inS == NonSelfIds(c, presence)
              changes == {i \in DOMAIN last'.out : last'.out[i].t = "change"}
          IN  /\ DOMAIN prov'[c].states \ {c} = inS
              /\ \A i \in changes :
                    /\ last'.out[i].v.added = inS \ before
                    /\ last'.out[i].v.updated = inS \cap before
                    /\ last'.out[i].v.removed = before \ inS
              /\ (inS \cup before # {}) => changes # {}]_vars

\* ----------------------------------------------------------------- C26
RemoteIn(out) == {i \in DOMAIN out : IsRemote(out[i])}

\* A change of the own local state issues nothing and leaves one timer
\* pending; an 'update' for other ids leaves the timer as it was; the
\* onValue handler arms no timer.
DebounceArms ==
    LET c == last'.who
    IN  /\ last'.op = "localAwareness" =>
              (RemoteIn(last'.out) = {} /\ prov'[c].timerDue)
        /\ last'.op \in {"othersAwareness", "onValue"} =>
              /\ RemoteIn(last'.out) = {}
              /\ prov'[c].timerDue = prov[c].timerDue
              /\ prov'[c].awarenessUpdateTimeout = prov[c].awarenessUpdateTimeout

\* C26 as stated: a burst of changes of the own state yields exactly one
\* remote write, issued by the timer after the last change and carrying the
\* local state current when the timer fires.
DebounceWritesLocalState ==
    [][/\ DebounceArms
       /\ last'.op = "awarenessTimer" =>
             LET c == last'.who
                 out == last'.out
             IN  /\ ~prov'[c].timerDue
                 /\ Cardinality(RemoteIn(out)) = 1
                 /\ \A i \in RemoteIn(out) :
                       /\ out[i].t = "set"
                       /\ c \in DOMAIN prov[c].states
                       /\ out[i].cur = prov[c].states[c].cursor]_vars

\* C26 amended: the one write the timer issues carries the cursor of the
\* local state current when the timer fires only if the editor is focused
\* at that time, otherwise the identity alone.
DebounceWritesGatedState ==
    [][/\ DebounceArms
       /\ last'.op = "awarenessTimer" =>
             LET c == last'.who
                 out == last'.out
             IN  /\ ~prov'[c].timerDue
                 /\ Cardinality(RemoteIn(out)) = 1
                 /\ \A i \in RemoteIn(out) :
                       /\ out[i].t = "set"
                       /\ c \in DOMAIN prov[c].states
                       /\ out[i].cur = (prov[c].isEditorFocused /\ prov[c].states[c].cursor)]_vars

\* The timer has fired after a burst: the entry carries the cursor of the
\* last change.
DebounceWitness ==
    /\ last.op = "awarenessTimer"
    /\ prov[last.who].isEditorFocused
    /\ presence[KeyStr(last.who)].cursor

\* ----------------------------------------------------------------- C27
\* No write of the client is on its way: no timer is due and the SDK has
\* nothing queued.
NoWritePending(c) ==
    /\ ~prov[c].timerDue /\ ~prov[c].initTimer
    /\ outbox[c] = <<>>

EntryHasCursor(c) == KeyStr(c) \in DOMAIN presence /\ presence[KeyStr(c)].cursor

\* C27: a presence write issued while isEditorFocused is false carries no
\* cursor; so while the flag is false and no write is pending the client's
\* remote entry carries no cursor.
UnfocusedWritesHaveNoCursor ==
    /\ [](\A c \in Clients :
             (prov[c].phase = "live" /\ ~prov[c].isEditorFocused /\ NoWritePending(c))
                => ~EntryHasCursor(c))
    /\ [][\A i \in PresenceWrites(last'.out) :
             ~prov'[last'.who].isEditorFocused => ~last'.out[i].cur]_vars

\* The timer has fired while the editor was not focused and the local state
\* held a cursor: the entry written carries none.
UnfocusedWriteWitness ==
    /\ last.op = "awarenessTimer"
    /\ PresenceWrites(last.out) # {}
    /\ ~prov[last.who].isEditorFocused
    /\ last.who \in DOMAIN prov[last.who].states
    /\ prov[last.who].states[last.who].cursor
    /\ ~EntryHasCursor(last.who)

\* ----------------------------------------------------------------- C28
\* C28: setEditorFocused(true) on an unfocused provider issues nothing and
\* changes only the flag; setEditorFocused(false) on a focused provider
\* leaves the local state without cursor and issues one cursor-less write
\* in the same call.
FocusFrame ==
    [][LET c == last'.who
           out == last'.out
       IN  /\ (last'.op = "setEditorFocusedTrue" /\ ~prov[c].isEditorFocused) =>
                 /\ out = <<>>
                 /\ prov'[c] = [prov[c] EXCEPT !.isEditorFocused = TRUE]
                 /\ presence' = presence /\ onDisc' = onDisc /\ log' = log
           /\ (last'.op = "setEditorFocusedFalse" /\ prov[c].isEditorFocused) =>
                 /\ ~prov'[c].isEditorFocused
                 /\ c \in DOMAIN prov'[c].states => ~prov'[c].states[c].cursor
                 /\ Cardinality(RemoteIn(out)) = 1
                 /\ \A i \in RemoteIn(out) : out[i].t = "set" /\ ~out[i].cur
                 /\ KeyStr(c) \in DOMAIN presence' /\ ~presence'[KeyStr(c)].cursor]_vars

\* A focused editor whose entry carried a cursor has blurred: the write of
\* the call has replaced the entry.
BlurWitness ==
    /\ last.op = "setEditorFocusedFalse"
    /\ PresenceWrites(last.out) # {}
    /\ prov[last.who].timerDue
    /\ KeyStr(last.who) \in DOMAIN presence

\* ----------------------------------------------------------------- C29
\* The entry of client c is there, with the caller identity and no cursor.
BasicEntryStored(c) ==
    KeyStr(c) \in DOMAIN presence /\ presence[KeyStr(c)] = BasicEntry(c)

\* C29: the constructor issues no presence write and leaves the initial
\* write to a timer; once constructed, a provider that is not torn down
\* eventually has its entry in the store, with its identity and no cursor.
InitialEntryEventually ==
    /\ [][last'.op = "construct" =>
             (PresenceWrites(last'.out) = {} /\ prov'[last'.who].initTimer)]_vars
    /\ \A c \in Clients :
          (last.op = "construct" /\ last.who = c) ~> BasicEntryStored(c)

\* The initial timer has fired in a step after the construction.
InitialEntryWritten ==
    /\ last.op = "initTimer"
    /\ BasicEntryStored(last.who)
    /\ ~prov[last.who].initTimer

\* ----------------------------------------------------------------- C30
\* C30: after the initial page, hasMore tells whether the collection holds
\* more than InitialBatchSize posts; the working set is InitialBatchSize
\* posts (all of them if there are fewer), none older than a post left out,
\* with the values the collection holds; the cursor is the smallest
\* creation timestamp of the working set; every post of it has a listener.
InitialLoad ==
    [][last'.op = "initialPage" =>
          LET K == Ids(loadedPosts')
              all == DOMAIN feed
          IN  /\ hasMore' = (Cardinality(all) > InitialBatchSize)
              /\ Len(loadedPosts') = Cardinality(K)
              /\ Cardinality(K) = IF Cardinality(all) > InitialBatchSize
                                  THEN InitialBatchSize ELSE Cardinality(all)
              /\ K \subseteq all
              /\ \A i \in K, j \in all \ K : feed[j].createdAt <= feed[i].createdAt
              /\ \A n \in 1 .. Len(loadedPosts') :
                    /\ loadedPosts'[n].createdAt = feed[loadedPosts'[n].id].createdAt
                    /\ loadedPosts'[n].rev = feed[loadedPosts'[n].id].rev
              /\ oldestCreatedAt' = IF K = {} THEN NoCursor
                                    ELSE Min({feed[i].createdAt : i \in K})
              /\ K \subseteq activeListeners'
              /\ loadingState' = "idle"]_vars

\* The initial page of a collection with more posts than the page size.
InitialLoadWitness ==
    /\ last.op = "initialPage"
    /\ Cardinality(DOMAIN feed) > InitialBatchSize
    /\ Len(loadedPosts) = InitialBatchSize
    /\ hasMore

\* ----------------------------------------------------------------- C31
\* The posts of the collection older than a cursor.
OlderThan(f, cursor) == {i \in DOMAIN f : f[i].createdAt < cursor}

\* A is a choice of the n newest posts of R.
NewestOf(f, A, R, n) ==
    /\ A \subseteq R
    /\ Cardinality(A) = IF Cardinality(R) > n THEN n ELSE Cardinality(R)
    /\ \A i \in A, j \in R \ A : f[j].createdAt <= f[i].createdAt

ValueOf(lp, id) == lp[FindIndex(lp, id)]

\* C31: a load-more is requested with the cursor of that moment; when it
\* returns posts, the LoadMoreBatchSize newest posts older than the cursor
\* are merged into the working set by id, each gets a listener, the cursor
\* becomes the minimum of the old cursor and their timestamps, and hasMore
\* tells whether more than LoadMoreBatchSize posts were older than the cursor.
LoadMoreMerge ==
    [][/\ (last'.op = "loadMoreTimer" /\ fetch'.on) => fetch'.oldest = oldestCreatedAt
       /\ (last'.op = "fetchReturns" /\ mounted /\ OlderThan(feed, fetch.oldest) # {}) =>
             LET R == OlderThan(feed, fetch.oldest)
             IN  /\ \E A \in SUBSET R :
                       /\ NewestOf(feed, A, R, LoadMoreBatchSize)
                       /\ Ids(loadedPosts') = Ids(loadedPosts) \cup A
                       /\ A \subseteq activeListeners'
                       /\ oldestCreatedAt' =
                             Min({oldestCreatedAt} \cup {feed[i].createdAt : i \in A})
                       /\ \A i \in A :
                             /\ ValueOf(loadedPosts', i).createdAt = feed[i].createdAt
                             /\ ValueOf(loadedPosts', i).rev = feed[i].rev
                       /\ \A i \in Ids(loadedPosts) \ A :
                             ValueOf(loadedPosts', i) = ValueOf(loadedPosts, i)
                 /\ Len(loadedPosts') = Cardinality(Ids(loadedPosts'))
                 /\ hasMore' = (Cardinality(R) > LoadMoreBatchSize)]_vars

\* A load-more has added a page below the initial one and more are left.
LoadMoreMergeWitness ==
    /\ last.op = "fetchReturns" /\ mounted
    /\ Len(loadedPosts) > InitialBatchSize
    /\ hasMore
\* ----------------------------------------------------------------- C32
\* C32: ties across a page boundary.  Once the initial page has arrived,
\* every post of an unchanging collection that is not yet in the working
\* set is strictly older than the cursor, so that a later load-more can
\* still fetch it, and no post is in the working set twice.
Unloaded == DOMAIN feed \ Ids(loadedPosts)
TiesReachable ==
    (mounted /\ loadingState # "loading-initial")
        => /\ \A i \in Unloaded : feed[i].createdAt < oldestCreatedAt
           /\ Len(loadedPosts) = Cardinality(Ids(loadedPosts))

\* ----------------------------------------------------------------- C33
\* C33: visibility tracking.  The observer's callback for a card entering the
\* viewport puts the post in the visible set and leaves it with a listener,
\* opening one only when the post had none (so that no post ever has two);
\* for a card leaving the viewport it takes the post out of the visible set
\* and leaves the listeners as they were.
OpenedFor == {last'.out[i].id : i \in DOMAIN last'.out}
EnterViewport(id) ==
    /\ visiblePostIds' = visiblePostIds \cup {id}
    /\ activeListeners' = activeListeners \cup {id}
    /\ OpenedFor = {id} \ activeListeners
    /\ Len(last'.out) = Cardinality(OpenedFor)
ExitViewport(id) ==
    /\ visiblePostIds' = visiblePostIds \ {id}
    /\ activeListeners' = activeListeners
    /\ last'.out = <<>>
VisibilityTracking ==
    [][last'.op = "observer" =>
          \E id \in PostIds : EnterViewport(id) \/ ExitViewport(id)]_vars

\* A card whose post already has a listener has entered the viewport, and
\* the post is visible with its listener.
EnteredWithListener ==
    /\ last.op = "observer" /\ last.out = <<>>
    /\ visiblePostIds \cap activeListeners # {}

\* A card has left the viewport while its post keeps its listener.
LeftWithListener ==
    /\ last.op = "observer" /\ last.out = <<>>
    /\ activeListeners \ visiblePostIds # {}

\* ----------------------------------------------------------------- C34
\* C34: live update application.  A post's listener delivering a value puts
\* that value in the working set under the post's id and changes no other
\* item, nor the cursor, nor the listeners; delivering a deletion takes the
\* post out of the working set and closes its listener.
Delivered == itemPending \ itemPending'
OthersKept(id) ==
    /\ Ids(loadedPosts') \ {id} = Ids(loadedPosts) \ {id}
    /\ \A i \in Ids(loadedPosts) \ {id} : ValueOf(loadedPosts', i) = ValueOf(loadedPosts, i)
    /\ Len(loadedPosts') = Cardinality(Ids(loadedPosts'))
LiveUpdate ==
    [][last'.op = "itemCallback" =>
          \E id \in Delivered :
             /\ Delivered = {id}
             /\ OthersKept(id)
             /\ oldestCreatedAt' = oldestCreatedAt
             /\ IF id \in DOMAIN feed
                THEN /\ id \in Ids(loadedPosts')
                     /\ ValueOf(loadedPosts', id).rev = feed[id].rev
                     /\ ValueOf(loadedPosts', id).createdAt = feed[id].createdAt
                     /\ activeListeners' = activeListeners
                ELSE /\ id \notin Ids(loadedPosts')
                     /\ activeListeners' = activeListeners \ {id}]_vars

\* A deletion has been delivered for a post that was loaded, others staying.
DeletionDelivered ==
    /\ last.op = "itemCallback"
    /\ DOMAIN feed # PostIds
    /\ loadedPosts # <<>>
    /\ (PostIds \ DOMAIN feed) \cap (Ids(loadedPosts) \cup activeListeners) = {}

\* ----------------------------------------------------------------- C35
\* C35: when the cleanup runs, the listeners it closes are exactly those of
\* the posts that are not visible and lie at or beyond the buffer distance
\* from every visible post; the listeners of visible posts and of posts
\* within that distance stay open.  (Over a collection that is never written
\* every listener's post is in the list, and the property holds.)
Closed == activeListeners \ activeListeners'
CleanupClosesFar ==
    [][last'.op = "cleanup" =>
          /\ Closed = {id \in activeListeners : Far(id)}
          /\ activeListeners' \subseteq activeListeners]_vars

\* ----------------------------------------------------------------- C36
\* C36: whenever a compaction replaces the log, the snapshot it writes
\* carries every struct of every record the log held at that moment, the
\* deltas included that other clients appended after the compacting
\* provider stopped listening to the log.
Structs(val) == ToUint8Array(val)
SnapshotCoversLog ==
    [][last'.op = "compactWrite" =>
          /\ CompactedKey \in DOMAIN log'
          /\ \A k \in DOMAIN log : Structs(log[k]) \subseteq Structs(log'[CompactedKey])]_vars

\* ----------------------------------------------------------------- C37
\* C37: every post with an open listener is in the working set, at the
\* latest once the listeners have delivered what they had to deliver.
ListenersInWorkingSet ==
    (mounted /\ itemPending = {}) => activeListeners \subseteq Ids(loadedPosts)

\* ----------------------------------------------------------------- C38
\* C38: a post that is still in the collection never leaves the working
\* set, and a delivery of the paginated subscription never moves the cursor
\* to a newer timestamp.
Dropped == Ids(loadedPosts) \ Ids(loadedPosts')
LoadedStays ==
    [][/\ Dropped \cap DOMAIN feed = {}
       /\ (last'.op = "initialPage" /\ oldestCreatedAt # NoCursor)
             => (oldestCreatedAt' # NoCursor /\ oldestCreatedAt' <= oldestCreatedAt)]_vars

\* ----------------------------------------------------------------- C39
\* C39: content sync-back.  In an editing session that stays open, once the
\* edits have stopped the post's stored content comes to equal the editor's
\* content and stays so, whenever the last edit arrived.
SyncBack == <>[](sync.content = sync.html)

====
